---- MODULE Spec2Model ----
(***************************************************************************)
(* Model of reader-service-py/main.py: the NATS request handler that maps  *)
(* a (query_type, params) request to an InfluxDB query, projects the rows  *)
(* and derives the answer (critical alerts, device health, temperature     *)
(* anomaly), plus the startup sequence of run().                           *)
(*                                                                         *)
(* Numbers are fixed-point with two decimals: Num(130) is 1.3, Num(9500)   *)
(* is 95.  Python values are tagged records so that values of different    *)
(* Python types can be compared.                                           *)
(***************************************************************************)
EXTENDS Integers, Sequences, FiniteSets, TLC

VARIABLES pc, creds, ping, subscribed, hstate, msg, store, response,
          replies, queries, escaped, invoked, caught

vars == <<pc, creds, ping, subscribed, hstate, msg, store, response,
          replies, queries, escaped, invoked, caught>>

\* Longest result set the store returns in the model.
MaxRows == 3

\* Fixed-point scale: a number n is stored as n * Scale.
Scale == 100

-----------------------------------------------------------------------------
(* Python values *)

Num(h) == [t |-> "num", n |-> h, s |-> ""]
Str(x) == [t |-> "str", n |-> 0, s |-> x]
None == [t |-> "none", n |-> 0, s |-> ""]
Bytes == [t |-> "bytes", n |-> 0, s |-> ""]

\* dict.get(key, default)
Get(d, k, default) == IF k \in DOMAIN d THEN d[k] ELSE default

\* Outcome of an expression that may raise: a value or an exception text.
Ok(v) == [raised |-> FALSE, exc |-> "", val |-> v]
Err(e) == [raised |-> TRUE, exc |-> e, val |-> 0]

\* Text of the decimal literals the model's strings can hold.
IntLiterals == [s \in {"9", "30"} |-> IF s = "9" THEN 9 ELSE 30]

\* int(v): truncation of a number, parse of a string, TypeError for None.
PyInt(v) ==
  CASE v.t = "num" -> Ok(IF v.n >= 0 THEN v.n \div Scale ELSE -((-v.n) \div Scale))
    [] v.t = "str" ->
         IF v.s \in DOMAIN IntLiterals
           THEN Ok(IntLiterals[v.s])
           ELSE Err("invalid literal for int() with base 10: '" \o v.s \o "'")
    [] OTHER -> Err("int() argument must be a string, a bytes-like object or a real number, not 'NoneType'")

\* float(v): the number itself (fixed-point), parse of a string.
PyFloat(v) ==
  CASE v.t = "num" -> Ok(v.n)
    [] v.t = "str" ->
         IF v.s \in DOMAIN IntLiterals
           THEN Ok(IntLiterals[v.s] * Scale)
           ELSE Err("could not convert string to float: '" \o v.s \o "'")
    [] OTHER -> Err("float() argument must be a string or a real number, not 'NoneType'")

\* str(v) as used by the f-strings.
PyStr(v) ==
  CASE v.t = "num" -> ToString(v.n \div Scale)
    [] v.t = "str" -> v.s
    [] v.t = "none" -> "None"
    [] OTHER -> "b''"

\* bool(v): None, "" and 0 are falsy.
Truthy(v) ==
  CASE v.t = "num" -> v.n # 0
    [] v.t = "str" -> v.s # ""
    [] v.t = "none" -> FALSE
    [] OTHER -> FALSE

\* isinstance(v, (int, float))
IsNumeric(v) == v.t = "num"

\* json.dumps accepts numbers, strings and None; bytes raise TypeError.
JsonValue(v) == v.t # "bytes"

-----------------------------------------------------------------------------
(* Outcome of a pipeline: a response, or an exception, and the store calls *)

Ret(resp, q) == [raised |-> FALSE, exc |-> "", response |-> resp, queries |-> q]
Raise(e, q) == [raised |-> TRUE, exc |-> e, response |-> <<>>, queries |-> q]

\* The outcome of query_api.query: the rows of all tables, or an exception.
StoreRows(rows) == [fail |-> FALSE, exc |-> "", rows |-> rows]
StoreFailure == [fail |-> TRUE, exc |-> "store query failed", rows |-> <<>>]

\* record.get_time().isoformat()
IsoFormat(t) == "1970-01-01T00:00:0" \o ToString(t) \o "+00:00"

-----------------------------------------------------------------------------
(* handle_alerts_critical *)

\* The dict appended for one record; a missing column raises KeyError.
ProjectEvent(record) ==
  IF "event_id" \notin DOMAIN record THEN Err("'event_id'")
  ELSE IF "source_device" \notin DOMAIN record THEN Err("'source_device'")
  ELSE IF "event_type" \notin DOMAIN record THEN Err("'event_type'")
  ELSE IF "criticality_level" \notin DOMAIN record THEN Err("'criticality_level'")
  ELSE LET crit == PyInt(record["criticality_level"])
       IN IF crit.raised THEN Err(crit.exc)
          ELSE Ok([time |-> Str(IsoFormat(record["_time"])),
                   event_id |-> record["event_id"],
                   source_device |-> record["source_device"],
                   event_type |-> record["event_type"],
                   criticality |-> Num(crit.val * Scale)])

\* The loop over tables and records, in row order; the first bad row raises.
RECURSIVE ProjectEvents(_)
ProjectEvents(rows) ==
  IF rows = <<>> THEN Ok(<<>>)
  ELSE LET head == ProjectEvent(Head(rows))
       IN IF head.raised THEN head
          ELSE LET rest == ProjectEvents(Tail(rows))
               IN IF rest.raised THEN rest
                  ELSE Ok(<<head.val>> \o rest.val)

\* Sort order of the device names (groupby sorts its keys).
DeviceOrder == <<"A", "B", "C">>

\* Variant: every group is reported with the number of groups, not its size.
GroupByCount(result) ==
  LET present == {result[i].source_device.s : i \in DOMAIN result}
      keys == SelectSeq(DeviceOrder, LAMBDA d : d \in present)
  IN [j \in 1..Len(keys) |->
        [source_device |-> Str(keys[j]),
         critical_event_count |-> Len(keys)]]

\* df.groupby("source_device").size().reset_index(name=...).to_dict("records")
GroupBySize(result) ==
  LET present == {result[i].source_device.s : i \in DOMAIN result}
      keys == SelectSeq(DeviceOrder, LAMBDA d : d \in present)
  IN [j \in 1..Len(keys) |->
        [source_device |-> Str(keys[j]),
         critical_event_count |->
           Cardinality({i \in DOMAIN result : result[i].source_device.s = keys[j]})]]

HandleAlertsCritical(params, st) ==
  LET since_minutes == PyInt(Get(params, "since_minutes", Num(15 * Scale)))
  IN IF since_minutes.raised THEN Raise(since_minutes.exc, <<>>)
     ELSE
     LET min_crit == PyInt(Get(params, "min_criticality", Num(8 * Scale)))
     IN IF min_crit.raised THEN Raise(min_crit.exc, <<>>)
        ELSE
        LET flux == [measurement |-> "events",
                     start |-> "-" \o ToString(since_minutes.val) \o "m",
                     filter |-> "criticality_level >= " \o ToString(min_crit.val)]
        IN IF st.fail THEN Raise(st.exc, <<flux>>)
           ELSE
           LET result == ProjectEvents(st.rows)
           IN IF result.raised THEN Raise(result.exc, <<flux>>)
              ELSE Ret([status |-> "success",
                        data |-> [k |-> "list", v |-> result.val],
                        summary |-> IF result.val # <<>>
                                      THEN GroupBySize(result.val)
                                      ELSE <<>>],
                       <<flux>>)

-----------------------------------------------------------------------------
(* handle_device_health *)

\* Variant: the thresholds are inclusive.
ClassifyInclusive(value) ==
  IF value >= 90 * Scale THEN "critical"
  ELSE IF value >= 70 * Scale THEN "warning"
  ELSE "ok"

\* The threshold chain applied to one numeric value.
Classify(value) ==
  IF value > 90 * Scale THEN "critical"
  ELSE IF value > 70 * Scale THEN "warning"
  ELSE "ok"

\* The loop over the records: a qualifying record overwrites health_status.
RECURSIVE HealthLoop(_, _)
HealthLoop(rows, health_status) ==
  IF rows = <<>> THEN health_status
  ELSE LET record == Head(rows)
       IN HealthLoop(Tail(rows),
                     IF record.field = "value" /\ IsNumeric(record.value)
                       THEN Classify(record.value.n)
                       ELSE health_status)

HandleDeviceHealth(params, st) ==
  LET device == Get(params, "source_device", None)
  IN IF ~Truthy(device)
       THEN Ret([status |-> "error", message |-> "source_device is required"], <<>>)
       ELSE
       LET flux == [measurement |-> "device_metrics",
                    start |-> "-5m",
                    filter |-> "source_device == " \o PyStr(device) \o " |> last()"]
       IN IF st.fail THEN Raise(st.exc, <<flux>>)
          ELSE Ret([status |-> "success",
                    data |-> [k |-> "obj",
                              v |-> [device |-> device,
                                     health |-> HealthLoop(st.rows, "unknown")]]],
                   <<flux>>)

-----------------------------------------------------------------------------
(* handle_anomaly_temperature *)

\* The list comprehension: values of the records whose field is "value".
RECURSIVE FieldValues(_)
FieldValues(rows) ==
  IF rows = <<>> THEN <<>>
  ELSE (IF Head(rows).field = "value" THEN <<Head(rows).value>> ELSE <<>>)
       \o FieldValues(Tail(rows))

TypeName(v) ==
  CASE v.t = "num" -> "float" [] v.t = "str" -> "str"
    [] v.t = "none" -> "NoneType" [] OTHER -> "bytes"

\* round(num / den, 2) in hundredths, den > 0: nearest, ties to even.
RoundDiv(num, den) ==
  LET q == (num * Scale) \div den
      r == (num * Scale) % den
  IN IF 2 * r < den THEN q
     ELSE IF 2 * r > den THEN q + 1
     ELSE IF q % 2 = 0 THEN q ELSE q + 1

\* latest / initial if initial != 0 else 0, as the fraction num/den, den > 0.
Ratio(latest, initial) ==
  IF initial.t = "num" /\ initial.n = 0 THEN Ok([num |-> 0, den |-> 1])
  ELSE IF initial.t = "num" /\ latest.t = "num"
    THEN Ok(IF initial.n > 0 THEN [num |-> latest.n, den |-> initial.n]
                             ELSE [num |-> -latest.n, den |-> -initial.n])
    ELSE Err("unsupported operand type(s) for /: '" \o TypeName(latest)
             \o "' and '" \o TypeName(initial) \o "'")

\* ratio >= threshold, threshold in hundredths.
IsAnomaly(ratio, threshold) == ratio.num * Scale >= threshold * ratio.den

\* Variant: a single sample is taken as enough.
NotEnoughDataOffByOne(values) == Len(values) < 1

\* The guard len(values) < 2.
NotEnoughData(values) == Len(values) < 2

HandleAnomalyTemperature(params, st) ==
  LET device == Get(params, "source_device", None)
      threshold == PyFloat(Get(params, "threshold", Num(130)))
  IN IF threshold.raised THEN Raise(threshold.exc, <<>>)
     ELSE
     LET window == PyInt(Get(params, "window_minutes", Num(20 * Scale)))
     IN IF window.raised THEN Raise(window.exc, <<>>)
        ELSE
        LET flux == [measurement |-> "device_metrics",
                     start |-> "-" \o ToString(window.val) \o "m",
                     filter |-> "source_device == " \o PyStr(device)
                                \o " and metric_type == temperature"]
        IN IF st.fail THEN Raise(st.exc, <<flux>>)
           ELSE
           LET values == FieldValues(st.rows)
           IN IF NotEnoughData(values)
                THEN Ret([status |-> "success",
                          data |-> [k |-> "str", v |-> "not enough data"]],
                         <<flux>>)
                ELSE
                LET initial == values[1]
                    latest == values[Len(values)]
                    ratio == Ratio(latest, initial)
                IN IF ratio.raised THEN Raise(ratio.exc, <<flux>>)
                   ELSE Ret([status |-> "success",
                             data |-> [k |-> "obj",
                                       v |-> [device |-> device,
                                              initial_temp |-> initial,
                                              latest_temp |-> latest,
                                              ratio |-> RoundDiv(ratio.val.num, ratio.val.den),
                                              anomaly |-> IsAnomaly(ratio.val, threshold.val)]]],
                            <<flux>>)

-----------------------------------------------------------------------------
(* request_handler *)

NoResponse == [status |-> "none"]
NoExc == [stage |-> "none", exc |-> ""]
NoMsg == [kind |-> "none", req |-> <<>>]
NoResult == [fail |-> FALSE, exc |-> "no query", rows |-> <<>>]

\* The branch of the if/elif chain taken for a query_type.
Route(query_type) ==
  IF query_type = Str("alerts_critical") THEN "alerts_critical"
  ELSE IF query_type = Str("device_health") THEN "device_health"
  ELSE IF query_type = Str("anomaly_temperature") THEN "anomaly_temperature"
  ELSE "unknown"

\* Variant: the envelope is built from the raw string, dropping non-strings.
UnknownQueryTypeRaw(query_type) ==
  [status |-> "error", message |-> "Unknown query_type: " \o query_type.s]

\* The else branch: the error envelope naming the received query_type.
UnknownQueryType(query_type) ==
  [status |-> "error", message |-> "Unknown query_type: " \o PyStr(query_type)]

\* The body of the try block: decode, look up, run the pipeline.
Dispatch(body, st) ==
  IF body.kind = "malformed"
    THEN [out |-> Raise("Expecting value: line 1 column 1 (char 0)", <<>>),
          pipeline |-> "none"]
  ELSE IF body.kind = "array"
    THEN [out |-> Raise("'list' object has no attribute 'get'", <<>>),
          pipeline |-> "none"]
  ELSE
    LET query_type == Get(body.req, "query_type", None)
        params == Get(body.req, "params", <<>>)
        branch == Route(query_type)
    IN CASE branch = "alerts_critical" ->
              [out |-> HandleAlertsCritical(params, st), pipeline |-> branch]
         [] branch = "device_health" ->
              [out |-> HandleDeviceHealth(params, st), pipeline |-> branch]
         [] branch = "anomaly_temperature" ->
              [out |-> HandleAnomalyTemperature(params, st), pipeline |-> branch]
         [] OTHER ->
              [out |-> Ret(UnknownQueryType(query_type), <<>>), pipeline |-> "none"]

\* Variant: the handler catches nothing, so a raised exception leaves it.
ExceptNothing(out) ==
  IF out.raised
    THEN [caught |-> FALSE, response |-> NoResponse]
    ELSE [caught |-> TRUE, response |-> out.response]

\* except Exception: every exception of the try block becomes an envelope.
Except(out) ==
  IF out.raised
    THEN [caught |-> TRUE, response |-> [status |-> "error", message |-> out.exc]]
    ELSE [caught |-> TRUE, response |-> out.response]

\* Whether json.dumps accepts the response.
Serialisable(resp) ==
  IF "data" \notin DOMAIN resp THEN TRUE
  ELSE CASE resp.data.k = "str" -> TRUE
         [] resp.data.k = "list" ->
              \A i \in DOMAIN resp.data.v :
                 /\ JsonValue(resp.data.v[i].event_id)
                 /\ JsonValue(resp.data.v[i].source_device)
                 /\ JsonValue(resp.data.v[i].event_type)
         [] OTHER ->
              /\ JsonValue(resp.data.v.device)
              /\ "initial_temp" \in DOMAIN resp.data.v =>
                   /\ JsonValue(resp.data.v.initial_temp)
                   /\ JsonValue(resp.data.v.latest_temp)

\* json.dumps(response).encode(): the payload, or TypeError.
JsonDumps(resp) ==
  IF Serialisable(resp)
    THEN [raised |-> FALSE, payload |-> resp]
    ELSE [raised |-> TRUE, payload |-> NoResponse]

\* The replies sent by the last statement, msg.respond(json.dumps(response)).
Respond(resp) ==
  LET enc == JsonDumps(resp)
  IN IF enc.raised THEN <<>> ELSE <<enc.payload>>

-----------------------------------------------------------------------------
(* Inputs *)

Absent == [t |-> "absent", n |-> 0, s |-> ""]

\* A dict holding the keys of f whose option is not Absent.
MkDict(f) == [k \in {x \in DOMAIN f : f[x] # Absent} |-> f[k]]

DeviceParams == {Absent, Str(""), Str("dev1")}

AlertsParams ==
  {MkDict(f) : f \in [since_minutes : {Absent, Num(30 * Scale), Str("abc")},
                      min_criticality : {Absent, Str("9"), Str("high")}]}

HealthParams == {MkDict(f) : f \in [source_device : DeviceParams]}

AnomalyParams ==
  {MkDict(f) : f \in [source_device : DeviceParams,
                      threshold : {Absent, Num(150), Str("hot")},
                      window_minutes : {Absent, Str("soon")}]}

Requests ==
  {[query_type |-> Str("alerts_critical"), params |-> p] : p \in AlertsParams}
  \cup {[query_type |-> Str("device_health"), params |-> p] : p \in HealthParams}
  \cup {[query_type |-> Str("anomaly_temperature"), params |-> p] : p \in AnomalyParams}
  \cup {[query_type |-> q, params |-> <<>>] : q \in {Str("foo"), Str(""), None, Num(5 * Scale)}}
  \cup {[query_type |-> Str("device_health")], [params |-> <<>>], <<>>}

Bodies ==
  {[kind |-> "malformed", req |-> <<>>], [kind |-> "array", req |-> <<>>]}
  \cup {[kind |-> "object", req |-> r] : r \in Requests}

EventRow(id, dev, crit) ==
  [_time |-> 1, event_id |-> id, event_type |-> Str("alarm"),
   source_device |-> Str(dev), criticality_level |-> crit]

EventRows ==
  {EventRow(Str("e1"), "A", Num(9 * Scale)),
   EventRow(Str("e2"), "A", Num(10 * Scale)),
   EventRow(Str("e3"), "B", Str("9")),
   EventRow(Str("e4"), "C", Str("high")),
   EventRow(Bytes, "B", Num(8 * Scale)),
   [_time |-> 1, event_type |-> Str("alarm"), source_device |-> Str("A"),
    criticality_level |-> Num(9 * Scale)]}

MetricRows ==
  {[field |-> "value", value |-> v] :
      v \in {Num(0), Num(27 * Scale), Num(35 * Scale), Num(70 * Scale),
             Num(90 * Scale), Num(95 * Scale), Str("n/a")}}
  \cup {[field |-> "status", value |-> Num(95 * Scale)]}

SeqsUpTo(S, n) == UNION {[1..k -> S] : k \in 0..n}

\* What the store may answer to the query of the pipeline a body selects.
StoreResults(body) ==
  LET branch == IF body.kind = "object"
                  THEN Route(Get(body.req, "query_type", None))
                  ELSE "unknown"
  IN CASE branch = "alerts_critical" ->
            {StoreFailure} \cup {StoreRows(r) : r \in SeqsUpTo(EventRows, MaxRows)}
       [] branch \in {"device_health", "anomaly_temperature"} ->
            {StoreFailure} \cup {StoreRows(r) : r \in SeqsUpTo(MetricRows, MaxRows)}
       [] OTHER -> {StoreFailure, StoreRows(<<>>)}

-----------------------------------------------------------------------------
(* run *)

CredValues == {None, Str(""), Str("secret")}

\* all([INFLUXDB_TOKEN, INFLUXDB_ORG, INFLUXDB_BUCKET])
AllCredentials(c) == Truthy(c.token) /\ Truthy(c.org) /\ Truthy(c.bucket)

\* Variant: the result of the ping is ignored.
AfterPingIgnored(ok) == "subscribe"

\* Where run() continues after influx_client.ping().
AfterPing(ok) == IF ok THEN "subscribe" ELSE "exited"

Init ==
  /\ pc = "start"
  /\ creds \in [token : CredValues, org : CredValues, bucket : CredValues]
  /\ ping = "untried"
  /\ subscribed = FALSE
  /\ hstate = "idle"
  /\ msg = NoMsg
  /\ store = NoResult
  /\ response = NoResponse
  /\ replies = <<>>
  /\ queries = <<>>
  /\ escaped = FALSE
  /\ invoked = "none"
  /\ caught = NoExc

CheckCredentials ==
  /\ pc = "start"
  /\ pc' = IF AllCredentials(creds) THEN "connect" ELSE "exited"
  /\ UNCHANGED <<creds, ping, subscribed, hstate, msg, store, response,
                 replies, queries, escaped, invoked, caught>>

PingStore ==
  /\ pc = "connect"
  /\ \E ok \in BOOLEAN :
       /\ ping' = IF ok THEN "ok" ELSE "failed"
       /\ pc' = AfterPing(ok)
  /\ UNCHANGED <<creds, subscribed, hstate, msg, store, response,
                 replies, queries, escaped, invoked, caught>>

Subscribe ==
  /\ pc = "subscribe"
  /\ subscribed' = TRUE
  /\ pc' = "serving"
  /\ UNCHANGED <<creds, ping, hstate, msg, store, response,
                 replies, queries, escaped, invoked, caught>>

\* The transport hands one message to the subscription callback.
Deliver(body) ==
  /\ subscribed
  /\ hstate # "pending"
  /\ msg' = body
  /\ hstate' = "pending"
  /\ store' = NoResult
  /\ response' = NoResponse
  /\ replies' = <<>>
  /\ queries' = <<>>
  /\ escaped' = FALSE
  /\ invoked' = "none"
  /\ caught' = NoExc
  /\ UNCHANGED <<pc, creds, ping, subscribed>>

RequestHandler ==
  /\ hstate = "pending"
  /\ \E st \in StoreResults(msg) :
       LET d == Dispatch(msg, st)
           e == Except(d.out)
       IN /\ invoked' = d.pipeline
          /\ queries' = d.out.queries
          /\ store' = IF d.out.queries # <<>> THEN st ELSE NoResult
          /\ caught' = IF d.out.raised
                         THEN [stage |-> IF d.pipeline = "none" THEN "decode" ELSE "pipeline",
                               exc |-> d.out.exc]
                         ELSE NoExc
          /\ response' = IF e.caught THEN e.response ELSE NoResponse
          /\ replies' = IF e.caught THEN Respond(e.response) ELSE <<>>
          /\ escaped' = IF e.caught THEN Respond(e.response) = <<>> ELSE TRUE
  /\ hstate' = "done"
  /\ UNCHANGED <<pc, creds, ping, subscribed, msg>>

Next ==
  \/ CheckCredentials
  \/ PingStore
  \/ Subscribe
  \/ \E body \in Bodies : Deliver(body)
  \/ RequestHandler

Spec == Init /\ [][Next]_vars

-----------------------------------------------------------------------------
(* Properties *)

\* The request of the message just handled, when its body is a JSON object.
Handled == hstate = "done"
QueryType == Get(msg.req, "query_type", None)
Params == Get(msg.req, "params", <<>>)
Answered == Handled /\ queries # <<>> /\ ~store.fail
IsError(resp, text) ==
  /\ DOMAIN resp = {"status", "message"}
  /\ resp.status = "error"
  /\ resp.message = text

\* C1: every message handed to request_handler gets exactly one reply,
\* on the success path and on every failure path.
C1_ExactlyOneReply == Handled => Len(replies) = 1

\* C2: with source_device absent or empty, device-health and
\* temperature-anomaly both answer "source_device is required" and never
\* call the store.
C2_MissingDeviceRejected ==
  (/\ Handled
   /\ msg.kind = "object"
   /\ QueryType \in {Str("device_health"), Str("anomaly_temperature")}
   /\ Get(Params, "source_device", Str("")) = Str(""))
  => /\ IsError(response, "source_device is required")
     /\ queries = <<>>

\* C3: an exception raised inside a pipeline is caught by request_handler:
\* the single reply is the error envelope carrying the exception's text,
\* nothing escapes the handler and the next message can be delivered.
C3_PipelineExceptionCaught ==
  (Handled /\ caught.stage = "pipeline")
  => /\ IsError(response, caught.exc)
     /\ replies = <<response>>
     /\ ~escaped
     /\ pc = "serving" /\ subscribed
     /\ \A body \in Bodies : ENABLED Deliver(body)

C3_Witness ==
  /\ Handled
  /\ caught = [stage |-> "pipeline", exc |-> "store query failed"]
  /\ replies = <<[status |-> "error", message |-> "store query failed"]>>

\* C4: a missing or unrecognised query_type is answered with exactly
\* "Unknown query_type: <value>", no pipeline runs, the store is not
\* called and nothing is raised.
C4_UnknownQueryType ==
  (/\ Handled
   /\ msg.kind = "object"
   /\ QueryType \notin {Str("alerts_critical"), Str("device_health"),
                        Str("anomaly_temperature")})
  => /\ IsError(response,
                CASE QueryType = Str("foo") -> "Unknown query_type: foo"
                  [] QueryType = Str("") -> "Unknown query_type: "
                  [] QueryType = Num(5 * Scale) -> "Unknown query_type: 5"
                  [] OTHER -> "Unknown query_type: None")
     /\ invoked = "none"
     /\ queries = <<>>
     /\ replies = <<response>>
     /\ ~escaped

C4_Witness ==
  /\ Handled
  /\ msg.kind = "object"
  /\ "query_type" \notin DOMAIN msg.req
  /\ replies = <<[status |-> "error", message |-> "Unknown query_type: None"]>>

\* C5: the anomaly flag of a temperature-anomaly answer equals the
\* comparison of the answer's own (rounded) ratio with the threshold.
C5_AnomalyAgreesWithRatio ==
  (/\ Answered
   /\ invoked = "anomaly_temperature"
   /\ "data" \in DOMAIN response
   /\ response.data.k = "obj")
  => (response.data.v.anomaly
        <=> response.data.v.ratio >= Get(Params, "threshold", Num(130)).n)

\* C6: device health is the class of the last row with field "value" and
\* a numeric value, "unknown" exactly when there is none, and the reply is
\* always a success carrying {device, health}.
C6_HealthLastQualifyingWins ==
  (Answered /\ invoked = "device_health")
  => LET rows == store.rows
         qual == {i \in DOMAIN rows :
                    rows[i].field = "value" /\ rows[i].value.t = "num"}
         last == CHOOSE i \in qual : \A j \in qual : j <= i
         health == response.data.v.health
     IN /\ DOMAIN response = {"status", "data"}
        /\ response.status = "success"
        /\ response.data.k = "obj"
        /\ DOMAIN response.data.v = {"device", "health"}
        /\ response.data.v.device = Params["source_device"]
        /\ replies = <<response>>
        /\ (health = "unknown") <=> (qual = {})
        /\ qual # {} =>
             /\ (health = "critical") <=> (rows[last].value.n > 9000)
             /\ (health = "warning") <=> (rows[last].value.n > 7000
                                          /\ rows[last].value.n <= 9000)
             /\ (health = "ok") <=> (rows[last].value.n <= 7000)

C6_Witness ==
  /\ Answered
  /\ invoked = "device_health"
  /\ store.rows = <<[field |-> "value", value |-> Num(9500)],
                    [field |-> "value", value |-> Num(7000)],
                    [field |-> "value", value |-> Str("n/a")]>>
  /\ response.data.v.health = "ok"

\* C7: the alerts answer lists the projected events in row order and its
\* summary has exactly one entry per distinct device in the data, counting
\* that device's events; no rows gives data = [] and summary = [].
C7_AlertsSummary ==
  (Answered /\ invoked = "alerts_critical")
  => /\ store.rows = <<>> =>
          /\ DOMAIN response = {"status", "data", "summary"}
          /\ response.status = "success"
          /\ response.data.v = <<>>
          /\ response.summary = <<>>
     /\ response.status = "success" =>
          LET data == response.data.v
              summary == response.summary
              devices == {data[i].source_device : i \in DOMAIN data}
          IN /\ DOMAIN response = {"status", "data", "summary"}
             /\ Len(data) = Len(store.rows)
             /\ \A i \in DOMAIN data :
                   /\ data[i].event_id = store.rows[i]["event_id"]
                   /\ data[i].source_device = store.rows[i]["source_device"]
                   /\ data[i].event_type = store.rows[i]["event_type"]
             /\ Len(summary) = Cardinality(devices)
             /\ \A j \in DOMAIN summary :
                   /\ summary[j].source_device \in devices
                   /\ summary[j].critical_event_count =
                        Cardinality({i \in DOMAIN data :
                           data[i].source_device = summary[j].source_device})
             /\ \A d \in devices :
                   Cardinality({j \in DOMAIN summary :
                                  summary[j].source_device = d}) = 1

C7_Witness ==
  /\ Answered
  /\ invoked = "alerts_critical"
  /\ response.status = "success"
  /\ Len(response.data.v) = 3
  /\ response.summary = <<[source_device |-> Str("A"), critical_event_count |-> 2],
                          [source_device |-> Str("B"), critical_event_count |-> 1]>>
  /\ Len(replies) = 1

\* C8: fewer than two rows with field "value" gives the success reply
\* whose data is the string "not enough data", never an error.
C8_NotEnoughData ==
  (/\ Answered
   /\ invoked = "anomaly_temperature"
   /\ Cardinality({i \in DOMAIN store.rows : store.rows[i].field = "value"}) < 2)
  => /\ DOMAIN response = {"status", "data"}
     /\ response.status = "success"
     /\ response.data.k = "str"
     /\ response.data.v = "not enough data"
     /\ replies = <<response>>

C8_Witness ==
  /\ Answered
  /\ invoked = "anomaly_temperature"
  /\ store.rows = <<[field |-> "status", value |-> Num(9500)],
                    [field |-> "value", value |-> Num(2700)]>>
  /\ response.data.k = "str"

\* C9: a row whose criticality (alerts) or value (health, anomaly) is not
\* numeric is skipped and the reply is still a success.
C9_NonNumericSkipped ==
  (/\ Answered
   /\ \/ /\ invoked = "alerts_critical"
         /\ \A i \in DOMAIN store.rows :
               /\ "event_id" \in DOMAIN store.rows[i]
               /\ store.rows[i]["event_id"].t = "str"
         /\ \E i \in DOMAIN store.rows :
               store.rows[i]["criticality_level"] = Str("high")
      \/ /\ invoked \in {"device_health", "anomaly_temperature"}
         /\ \E i \in DOMAIN store.rows :
               store.rows[i].field = "value" /\ store.rows[i].value.t = "str")
  => response.status = "success"

\* C10: nothing is subscribed, handled or queried unless the credential
\* check and the ping both succeeded; a failed startup ends the process
\* with no subscription.
C10_StartupGate ==
  /\ (subscribed \/ hstate # "idle" \/ queries # <<>> \/ replies # <<>>)
       => /\ creds.token \notin {None, Str("")}
          /\ creds.org \notin {None, Str("")}
          /\ creds.bucket \notin {None, Str("")}
          /\ ping = "ok"
  /\ pc = "exited" => ~subscribed /\ hstate = "idle"

C10_Witness == pc = "exited" /\ ping = "failed" /\ ~subscribed

====
